---- MODULE Spec2Model ----
(* WaterManager (source/renderer/WaterManager.cpp): progressive load of the   *)
(* animated water textures, creation of the reflection/refraction textures,  *)
(* and unloading.  One action per public method; the texture loader, the GL  *)
(* and the clock are the environment, whose answers are the actions' inputs. *)
EXTENDS Integers, Sequences, FiniteSets, TLC

(* ------------------------------------------------------------------------ *)
(* Bounds                                                                    *)
(* ------------------------------------------------------------------------ *)

\* ARRAY_SIZE(m_WaterTexture), scaled down
num_textures == 2

\* ARRAY_SIZE(m_NormalMap), scaled down
num_normal_maps == 1

\* failed LoadWaterTextures calls explored between two unloads
MaxFailures == 1

\* texture names glGenTextures hands out before the exploration stops
MaxGenTextures == 4

(* ------------------------------------------------------------------------ *)
(* Environment                                                               *)
(* ------------------------------------------------------------------------ *)

\* what happens to the texture an iteration of a load loop works on; "gl_err":
\* the loops meet nothing, glTexImage2D of the refraction texture fails
Events == {"ok", "timeout", "load_err", "load_zero", "upload_err", "gl_err"}

\* window heights g_Renderer.GetHeight() answers with
Heights == {0, 1, 1000, 1024}

ERR_FAIL == -1

ERR_UPLOAD == -2

GL_NEAREST == 9728

GL_LINEAR == 9729

GL_CLAMP_TO_EDGE == 33071

RECURSIVE Digits(_)
\* decimal digits of n, most significant first
Digits(n) == IF n < 10 THEN <<n>> ELSE Append(Digits(n \div 10), n % 10)

\* printf's %02d
Format02d(n) == IF n < 10 THEN <<0, n>> ELSE Digits(n)

\* snprintf(filename, ..., "art/textures/animated/water/%s/<kind>%02d.dds", water_type, n)
Filename(kind, n) == <<"default", kind, Format02d(n)>>

RECURSIVE Value(_)
\* the number a digit string denotes
Value(ds) == IF Len(ds) = 0 THEN 0 ELSE 10 * Value(SubSeq(ds, 1, Len(ds) - 1)) + ds[Len(ds)]

\* the handle of a successfully loaded file: positive, one per file name
HandleOf(filename) == (IF filename[2] = "diffuse" THEN 100 ELSE 200) + Value(filename[3])

\* Handle ht = ogl_tex_load(filename)
ogl_tex_load(filename, ev) ==
    CASE ev = "load_err" -> ERR_FAIL
      [] ev = "load_zero" -> 0
      [] OTHER -> HandleOf(filename)

\* ogl_tex_upload(ht)
ogl_tex_upload(ht, ev) == IF ev = "upload_err" THEN ERR_UPLOAD ELSE 0

\* LDR_CHECK_TIMEOUT: the progress (percent, never 0) returned when the time is up
LDR_CHECK_TIMEOUT(completed_jobs, total_jobs) ==
    LET progress_percent == (completed_jobs * 100) \div total_jobs
    IN IF progress_percent = 0 THEN 1 ELSE progress_percent

RECURSIVE Pow2AtLeast(_, _)
Pow2AtLeast(p, x) == IF p >= x THEN p ELSE Pow2AtLeast(2 * p, x)

\* smallest power of two >= x
RoundUpToPowerOf2(x) == Pow2AtLeast(1, x)

(* ------------------------------------------------------------------------ *)
(* State                                                                     *)
(* ------------------------------------------------------------------------ *)

VARIABLES
    m_RenderWater,            \* rendering enabled
    m_WaterTexture,           \* [0..num_textures-1 -> Handle], 0 = none
    m_NormalMap,              \* [0..num_normal_maps-1 -> Handle], 0 = none
    cur_loading_water_tex,
    cur_loading_normal_map,
    m_ReflectionTexture,      \* GL texture name, 0 = none
    m_RefractionTexture,
    m_ReflectionTextureSize,
    m_RefractionTextureSize,
    g_Renderer_Height,        \* what g_Renderer.GetHeight() answers
    ret,                      \* <<value the last call returned>>, << >> if none
    glTextures,               \* GL: sequence of the textures generated so far
    loaded,                   \* handles ogl_tex_load returned in this load session
    freed,                    \* handles the last call passed to ogl_tex_free
    requests,                 \* file names passed to ogl_tex_load since the last unload
    lastOp,                   \* "new", "load" or "unload"
    calls,                    \* LoadWaterTextures calls since the last unload
    failures,                 \* of which failed
    provisions,               \* render-target creations since the last unload
    recovering                \* the last unload followed a failed call

vars == <<m_RenderWater, m_WaterTexture, m_NormalMap, cur_loading_water_tex,
          cur_loading_normal_map, m_ReflectionTexture, m_RefractionTexture,
          m_ReflectionTextureSize, m_RefractionTextureSize, g_Renderer_Height, ret,
          glTextures, loaded, freed, requests, lastOp, calls, failures, provisions,
          recovering>>

total_jobs == num_textures + num_normal_maps

Handles == {HandleOf(Filename("diffuse", i)) : i \in 1..num_textures}
             \cup {HandleOf(Filename("normal", i)) : i \in 1..num_normal_maps}

\* the object and its environment as one value, for the method bodies
Self ==
    [m_RenderWater |-> m_RenderWater,
     m_WaterTexture |-> m_WaterTexture,
     m_NormalMap |-> m_NormalMap,
     cur_loading_water_tex |-> cur_loading_water_tex,
     cur_loading_normal_map |-> cur_loading_normal_map,
     m_ReflectionTexture |-> m_ReflectionTexture,
     m_RefractionTexture |-> m_RefractionTexture,
     m_ReflectionTextureSize |-> m_ReflectionTextureSize,
     m_RefractionTextureSize |-> m_RefractionTextureSize,
     ret |-> ret,
     glTextures |-> glTextures,
     loaded |-> IF lastOp = "unload" THEN << >> ELSE loaded,
     freed |-> << >>,
     requests |-> requests,
     failed |-> FALSE,
     provisioned |-> FALSE,
     pc |-> "run"]

\* WaterManager::WaterManager()
Constructed ==
    [m_RenderWater |-> FALSE,
     m_WaterTexture |-> [i \in 0..(num_textures - 1) |-> 0],
     m_NormalMap |-> [i \in 0..(num_normal_maps - 1) |-> 0],
     cur_loading_water_tex |-> 0,
     cur_loading_normal_map |-> 0,
     m_ReflectionTexture |-> 0,
     m_RefractionTexture |-> 0,
     m_ReflectionTextureSize |-> 0,
     m_RefractionTextureSize |-> 0,
     ret |-> << >>,
     glTextures |-> << >>,
     loaded |-> << >>,
     freed |-> << >>,
     requests |-> << >>,
     failed |-> FALSE,
     provisioned |-> FALSE,
     pc |-> "run"]

Init ==
    /\ m_RenderWater = Constructed.m_RenderWater
    /\ m_WaterTexture = Constructed.m_WaterTexture
    /\ m_NormalMap = Constructed.m_NormalMap
    /\ cur_loading_water_tex = Constructed.cur_loading_water_tex
    /\ cur_loading_normal_map = Constructed.cur_loading_normal_map
    /\ m_ReflectionTexture = Constructed.m_ReflectionTexture
    /\ m_RefractionTexture = Constructed.m_RefractionTexture
    /\ m_ReflectionTextureSize = Constructed.m_ReflectionTextureSize
    /\ m_RefractionTextureSize = Constructed.m_RefractionTextureSize
    /\ ret = Constructed.ret
    /\ glTextures = Constructed.glTextures
    /\ loaded = Constructed.loaded
    /\ freed = Constructed.freed
    /\ g_Renderer_Height \in Heights
    /\ requests = Constructed.requests
    /\ lastOp = "new"
    /\ calls = 0
    /\ failures = 0
    /\ provisions = 0
    /\ recovering = FALSE

(* ------------------------------------------------------------------------ *)
(* LoadWaterTextures                                                         *)
(* ------------------------------------------------------------------------ *)

\* DiffuseIteration with the timeout checked before the cursor is advanced
DiffuseIteration_TimeoutFirst(s, ev) ==
    LET filename == Filename("diffuse", s.cur_loading_water_tex + 1)
        ht == ogl_tex_load(filename, ev)
        s1 == [s EXCEPT !.requests = Append(@, filename)]
    IN IF ht <= 0
       THEN [s1 EXCEPT !.ret = <<ht>>, !.failed = TRUE, !.pc = "return"]
       ELSE LET s2 == [s1 EXCEPT !.m_WaterTexture[s.cur_loading_water_tex] = ht,
                                 !.loaded = Append(@, ht)]
            IN IF ogl_tex_upload(ht, ev) < 0
               THEN [s2 EXCEPT !.ret = <<ogl_tex_upload(ht, ev)>>, !.failed = TRUE,
                               !.pc = "return"]
               ELSE IF ev = "timeout"
                    THEN [s2 EXCEPT !.ret = <<LDR_CHECK_TIMEOUT(s2.cur_loading_water_tex + 1,
                                                                total_jobs)>>,
                                    !.pc = "return"]
                    ELSE [s2 EXCEPT !.cur_loading_water_tex = @ + 1]

\* DiffuseIteration without line 107, the store of the handle in its slot
DiffuseIteration_NoStore(s, ev) ==
    LET filename == Filename("diffuse", s.cur_loading_water_tex + 1)
        ht == ogl_tex_load(filename, ev)
        s1 == [s EXCEPT !.requests = Append(@, filename)]
    IN IF ht <= 0
       THEN [s1 EXCEPT !.ret = <<ht>>, !.failed = TRUE, !.pc = "return"]
       ELSE LET s2 == [s1 EXCEPT !.loaded = Append(@, ht)]
            IN IF ogl_tex_upload(ht, ev) < 0
               THEN [s2 EXCEPT !.ret = <<ogl_tex_upload(ht, ev)>>, !.failed = TRUE,
                               !.pc = "return"]
               ELSE LET s3 == [s2 EXCEPT !.cur_loading_water_tex = @ + 1]
                    IN IF ev = "timeout"
                       THEN [s3 EXCEPT !.ret = <<LDR_CHECK_TIMEOUT(s3.cur_loading_water_tex,
                                                                  total_jobs)>>,
                                       !.pc = "return"]
                       ELSE s3

\* one pass through the body of the diffuse loop (lines 99-110)
DiffuseIteration(s, ev) ==
    LET filename == Filename("diffuse", s.cur_loading_water_tex + 1)
        ht == ogl_tex_load(filename, ev)
        s1 == [s EXCEPT !.requests = Append(@, filename)]
    IN IF ht <= 0
       THEN [s1 EXCEPT !.ret = <<ht>>, !.failed = TRUE, !.pc = "return"]
       ELSE LET s2 == [s1 EXCEPT !.m_WaterTexture[s.cur_loading_water_tex] = ht,
                                 !.loaded = Append(@, ht)]
            IN IF ogl_tex_upload(ht, ev) < 0
               THEN [s2 EXCEPT !.ret = <<ogl_tex_upload(ht, ev)>>, !.failed = TRUE,
                               !.pc = "return"]
               ELSE LET s3 == [s2 EXCEPT !.cur_loading_water_tex = @ + 1]
                    IN IF ev = "timeout"
                       THEN [s3 EXCEPT !.ret = <<LDR_CHECK_TIMEOUT(s3.cur_loading_water_tex,
                                                                  total_jobs)>>,
                                       !.pc = "return"]
                       ELSE s3

\* NormalIteration with the timeout checked before the cursor is advanced
NormalIteration_TimeoutFirst(s, ev) ==
    LET filename == Filename("normal", s.cur_loading_normal_map + 1)
        ht == ogl_tex_load(filename, ev)
        s1 == [s EXCEPT !.requests = Append(@, filename)]
    IN IF ht <= 0
       THEN [s1 EXCEPT !.ret = <<ht>>, !.failed = TRUE, !.pc = "return"]
       ELSE LET s2 == [s1 EXCEPT !.m_NormalMap[s.cur_loading_normal_map] = ht,
                                 !.loaded = Append(@, ht)]
            IN IF ogl_tex_upload(ht, ev) < 0
               THEN [s2 EXCEPT !.ret = <<ogl_tex_upload(ht, ev)>>, !.failed = TRUE,
                               !.pc = "return"]
               ELSE IF ev = "timeout"
                    THEN [s2 EXCEPT !.ret = <<LDR_CHECK_TIMEOUT(
                                                  num_textures + s2.cur_loading_normal_map + 1,
                                                  total_jobs)>>,
                                    !.pc = "return"]
                    ELSE [s2 EXCEPT !.cur_loading_normal_map = @ + 1]

\* NormalIteration with the cursor advanced before the upload is checked
NormalIteration_AdvanceBeforeUpload(s, ev) ==
    LET filename == Filename("normal", s.cur_loading_normal_map + 1)
        ht == ogl_tex_load(filename, ev)
        s1 == [s EXCEPT !.requests = Append(@, filename)]
    IN IF ht <= 0
       THEN [s1 EXCEPT !.ret = <<ht>>, !.failed = TRUE, !.pc = "return"]
       ELSE LET s2 == [s1 EXCEPT !.m_NormalMap[s.cur_loading_normal_map] = ht,
                                 !.loaded = Append(@, ht),
                                 !.cur_loading_normal_map = @ + 1]
            IN IF ogl_tex_upload(ht, ev) < 0
               THEN [s2 EXCEPT !.ret = <<ogl_tex_upload(ht, ev)>>, !.failed = TRUE,
                               !.pc = "return"]
               ELSE IF ev = "timeout"
                    THEN [s2 EXCEPT !.ret = <<LDR_CHECK_TIMEOUT(
                                                  num_textures + s2.cur_loading_normal_map,
                                                  total_jobs)>>,
                                    !.pc = "return"]
                    ELSE s2

\* one pass through the body of the normal-map loop (lines 116-127)
NormalIteration(s, ev) ==
    LET filename == Filename("normal", s.cur_loading_normal_map + 1)
        ht == ogl_tex_load(filename, ev)
        s1 == [s EXCEPT !.requests = Append(@, filename)]
    IN IF ht <= 0
       THEN [s1 EXCEPT !.ret = <<ht>>, !.failed = TRUE, !.pc = "return"]
       ELSE LET s2 == [s1 EXCEPT !.m_NormalMap[s.cur_loading_normal_map] = ht,
                                 !.loaded = Append(@, ht)]
            IN IF ogl_tex_upload(ht, ev) < 0
               THEN [s2 EXCEPT !.ret = <<ogl_tex_upload(ht, ev)>>, !.failed = TRUE,
                               !.pc = "return"]
               ELSE LET s3 == [s2 EXCEPT !.cur_loading_normal_map = @ + 1]
                    IN IF ev = "timeout"
                       THEN [s3 EXCEPT !.ret = <<LDR_CHECK_TIMEOUT(
                                                   num_textures + s3.cur_loading_normal_map,
                                                   total_jobs)>>,
                                       !.pc = "return"]
                       ELSE s3

\* GenTexture with GL_LINEAR as the minification filter whatever is asked for
GenTexture_LinearMin(gl, size, minFilter, created) ==
    Append(gl, [size |-> size, min |-> GL_LINEAR, mag |-> GL_LINEAR,
                wrap_s |-> GL_CLAMP_TO_EDGE, wrap_t |-> GL_CLAMP_TO_EDGE,
                created |-> created])

\* glGenTextures + glBindTexture + glTexImage2D + 4 x glTexParameteri; created
\* tells whether glTexImage2D gave the texture its image
GenTexture(gl, size, minFilter, created) ==
    Append(gl, [size |-> size, min |-> minFilter, mag |-> GL_LINEAR,
                wrap_s |-> GL_CLAMP_TO_EDGE, wrap_t |-> GL_CLAMP_TO_EDGE,
                created |-> created])

\* TextureSize without line 135, the halving
TextureSize_NoHalve(height) == RoundUpToPowerOf2(height)

\* lines 134-135
TextureSize(height) ==
    LET size == RoundUpToPowerOf2(height)
    IN IF size > height THEN size \div 2 ELSE size

\* CreateRenderTargets without the last assignment, m_RenderWater = true
CreateRenderTargets_NoEnable(s, height, ev) ==
    LET size == TextureSize(height)
        gl1 == GenTexture(s.glTextures, size, GL_NEAREST, TRUE)
        gl2 == GenTexture(gl1, size, GL_LINEAR, ev # "gl_err")
    IN [s EXCEPT !.m_ReflectionTextureSize = size,
                 !.m_RefractionTextureSize = size,
                 !.m_ReflectionTexture = Len(gl1),
                 !.m_RefractionTexture = Len(gl2),
                 !.glTextures = gl2,
                 !.provisioned = TRUE,
                 !.ret = <<0>>,
                 !.pc = "return"]

\* lines 134-164: size and create the reflection and refraction textures, enable
CreateRenderTargets(s, height, ev) ==
    LET size == TextureSize(height)
        gl1 == GenTexture(s.glTextures, size, GL_NEAREST, TRUE)
        gl2 == GenTexture(gl1, size, GL_LINEAR, ev # "gl_err")
    IN [s EXCEPT !.m_ReflectionTextureSize = size,
                 !.m_RefractionTextureSize = size,
                 !.m_ReflectionTexture = Len(gl1),
                 !.m_RefractionTexture = Len(gl2),
                 !.glTextures = gl2,
                 !.m_RenderWater = TRUE,
                 !.provisioned = TRUE,
                 !.ret = <<0>>,
                 !.pc = "return"]

RECURSIVE RunLoad(_, _, _, _)
\* the body of LoadWaterTextures: the n-th texture worked on from now meets ev,
\* the others load, upload and do not time out
RunLoad(s, n, ev, height) ==
    IF s.cur_loading_water_tex < num_textures
    THEN LET t == DiffuseIteration(s, IF n = 0 THEN ev ELSE "ok")
         IN IF t.pc = "return" THEN t ELSE RunLoad(t, n - 1, ev, height)
    ELSE IF s.cur_loading_normal_map < num_normal_maps
    THEN LET t == NormalIteration(s, IF n = 0 THEN ev ELSE "ok")
         IN IF t.pc = "return" THEN t ELSE RunLoad(t, n - 1, ev, height)
    ELSE CreateRenderTargets(s, height, ev)

\* textures the loops still have to work on
Remaining == (num_textures - cur_loading_water_tex) + (num_normal_maps - cur_loading_normal_map)

\* int WaterManager::LoadWaterTextures()
LoadWaterTextures ==
    \E n \in 0..(total_jobs - 1), ev \in Events :
        LET t == RunLoad(Self, n, ev, g_Renderer_Height)
        IN /\ ev \in {"ok", "gl_err"} => n = 0
           /\ n < Remaining \/ n = 0
           /\ t.failed => failures < MaxFailures
           /\ Len(t.glTextures) <= MaxGenTextures
           /\ m_RenderWater' = t.m_RenderWater
           /\ m_WaterTexture' = t.m_WaterTexture
           /\ m_NormalMap' = t.m_NormalMap
           /\ cur_loading_water_tex' = t.cur_loading_water_tex
           /\ cur_loading_normal_map' = t.cur_loading_normal_map
           /\ m_ReflectionTexture' = t.m_ReflectionTexture
           /\ m_RefractionTexture' = t.m_RefractionTexture
           /\ m_ReflectionTextureSize' = t.m_ReflectionTextureSize
           /\ m_RefractionTextureSize' = t.m_RefractionTextureSize
           /\ ret' = t.ret
           /\ glTextures' = t.glTextures
           /\ loaded' = t.loaded
           /\ freed' = t.freed
           /\ requests' = t.requests
           /\ lastOp' = "load"
           /\ calls' = calls + 1
           /\ failures' = IF t.failed THEN failures + 1 ELSE failures
           /\ provisions' = IF t.provisioned THEN provisions + 1 ELSE provisions
           /\ UNCHANGED <<g_Renderer_Height, recovering>>

(* ------------------------------------------------------------------------ *)
(* UnloadWaterTextures                                                       *)
(* ------------------------------------------------------------------------ *)

\* ogl_tex_free(h): frees the texture behind h; a null handle is ignored
ogl_tex_free(fr, h) == IF h = 0 THEN fr ELSE Append(fr, h)

RECURSIVE FreeAll(_, _, _)
\* the free calls of a loop over slots 0..n-1 of arr
FreeAll(fr, arr, n) ==
    IF n = 0 THEN fr ELSE ogl_tex_free(FreeAll(fr, arr, n - 1), arr[n - 1])

\* RunUnload without the reset of cur_loading_water_tex
RunUnload_KeepCursor(s) ==
    [s EXCEPT !.freed = FreeAll(FreeAll(<< >>, s.m_WaterTexture, num_textures),
                                s.m_NormalMap, num_normal_maps),
              !.m_WaterTexture = [i \in 0..(num_textures - 1) |-> 0],
              !.m_NormalMap = [i \in 0..(num_normal_maps - 1) |-> 0],
              !.cur_loading_normal_map = 0]

\* RunUnload without the second loop (lines 179-183)
RunUnload_SkipNormalMaps(s) ==
    [s EXCEPT !.freed = FreeAll(<< >>, s.m_WaterTexture, num_textures),
              !.m_WaterTexture = [i \in 0..(num_textures - 1) |-> 0],
              !.cur_loading_water_tex = 0,
              !.cur_loading_normal_map = 0]

\* the body of UnloadWaterTextures (lines 172-186)
RunUnload(s) ==
    [s EXCEPT !.freed = FreeAll(FreeAll(<< >>, s.m_WaterTexture, num_textures),
                                s.m_NormalMap, num_normal_maps),
              !.m_WaterTexture = [i \in 0..(num_textures - 1) |-> 0],
              !.m_NormalMap = [i \in 0..(num_normal_maps - 1) |-> 0],
              !.cur_loading_water_tex = 0,
              !.cur_loading_normal_map = 0]

\* void WaterManager::UnloadWaterTextures()
UnloadWaterTextures ==
    LET t == RunUnload(Self)
    IN /\ m_WaterTexture' = t.m_WaterTexture
       /\ m_NormalMap' = t.m_NormalMap
       /\ cur_loading_water_tex' = t.cur_loading_water_tex
       /\ cur_loading_normal_map' = t.cur_loading_normal_map
       /\ m_RenderWater' = t.m_RenderWater
       /\ m_ReflectionTexture' = t.m_ReflectionTexture
       /\ m_RefractionTexture' = t.m_RefractionTexture
       /\ m_ReflectionTextureSize' = t.m_ReflectionTextureSize
       /\ m_RefractionTextureSize' = t.m_RefractionTextureSize
       /\ glTextures' = t.glTextures
       /\ loaded' = loaded
       /\ freed' = t.freed
       /\ ret' = << >>
       /\ requests' = << >>
       /\ lastOp' = "unload"
       /\ calls' = 0
       /\ failures' = 0
       /\ provisions' = 0
       /\ recovering' = (failures > 0)
       /\ UNCHANGED g_Renderer_Height

Next == LoadWaterTextures \/ UnloadWaterTextures

Spec == Init /\ [][Next]_vars

TypeOK ==
    /\ m_RenderWater \in BOOLEAN
    /\ cur_loading_water_tex \in 0..num_textures
    /\ cur_loading_normal_map \in 0..num_normal_maps
    /\ Len(ret) <= 1
    /\ Len(glTextures) <= MaxGenTextures
    /\ lastOp \in {"new", "load", "unload"}

(* ------------------------------------------------------------------------ *)
(* Vocabulary of the properties                                              *)
(* ------------------------------------------------------------------------ *)

\* both cursors have reached their capacities
Full == cur_loading_water_tex = num_textures /\ cur_loading_normal_map = num_normal_maps

\* nothing loaded: all slots empty, both cursors zero ("Idle")
Idle ==
    /\ cur_loading_water_tex = 0
    /\ cur_loading_normal_map = 0
    /\ \A i \in 0..(num_textures - 1) : m_WaterTexture[i] = 0
    /\ \A i \in 0..(num_normal_maps - 1) : m_NormalMap[i] = 0

\* the last call was LoadWaterTextures and it returned 0 after the last line
ReturnedDone == lastOp = "load" /\ ret = <<0>> /\ Full

\* the last call was LoadWaterTextures and it returned from a failed load or upload
ReturnedError == lastOp = "load" /\ (ret[1] < 0 \/ (ret[1] = 0 /\ ~Full))

\* the members of the object
Members ==
    <<m_RenderWater, m_WaterTexture, m_NormalMap, cur_loading_water_tex,
      cur_loading_normal_map, m_ReflectionTexture, m_RefractionTexture,
      m_ReflectionTextureSize, m_RefractionTextureSize>>

\* <<Filename(kind, 1), ..., Filename(kind, m)>>
FirstNames(kind, m) == [i \in 1..m |-> Filename(kind, i)]

IsDiffuse(f) == f[2] = "diffuse"

IsNormal(f) == f[2] = "normal"

\* a load from the constructed object that no timeout interrupts and no failure ends
Uninterrupted == RunLoad(Constructed, total_jobs, "ok", g_Renderer_Height)

(* ------------------------------------------------------------------------ *)
(* C1..C10                                                                   *)
(* ------------------------------------------------------------------------ *)

\* C1 (as claimed): m_RenderWater is false after construction; whenever it is
\* true, both cursors are at capacity and the render targets were created since
\* the last unload; and after a call that returned a failure it is false.
C1_ReadinessGate ==
    /\ lastOp = "new" => ~m_RenderWater
    /\ m_RenderWater => (Full /\ provisions > 0)
    /\ ReturnedError => ~m_RenderWater

\* C2 (as claimed): after UnloadWaterTextures the readiness flag is false, both
\* render-target handles are gone and the object is Idle.
C2_UnloadClearsAll ==
    lastOp = "unload" =>
        (~m_RenderWater /\ m_ReflectionTexture = 0 /\ m_RefractionTexture = 0 /\ Idle)

\* C3 (as claimed): a LoadWaterTextures call that follows one that returned Done
\* returns Done, changes no member and creates no GL texture.
C3_RepeatAfterDoneIsNoOp ==
    [][(ReturnedDone /\ lastOp' = "load")
          => (ret' = <<0>> /\ Members' = Members /\ glTextures' = glTextures)]_vars

\* C4 (as claimed): a LoadWaterTextures call that follows one that returned an
\* error returns the same error, requests no file and changes no member.
C4_RepeatAfterErrorIsNoOp ==
    [][(ReturnedError /\ lastOp' = "load")
          => (ret' = ret /\ requests' = requests /\ loaded' = loaded
              /\ Members' = Members)]_vars

\* C5 (as claimed): when the load or upload of the k-th texture of a class fails,
\* the call returns the failure, that class's cursor is k-1 (not advanced), the
\* other cursor is unchanged and m_RenderWater is false.
C5_FailureIsolation ==
    [][(lastOp' = "load" /\ ReturnedError')
          => (/\ ret'[1] <= 0
              /\ LET f == requests'[Len(requests')]
                 IN IF IsDiffuse(f)
                    THEN /\ f = Filename("diffuse", cur_loading_water_tex' + 1)
                         /\ cur_loading_normal_map' = cur_loading_normal_map
                    ELSE /\ f = Filename("normal", cur_loading_normal_map' + 1)
                         /\ cur_loading_water_tex' = num_textures
              /\ ~m_RenderWater')]_vars

\* C6 (as claimed): in a load session no normal map is requested before every
\* diffuse texture was loaded and uploaded, and the files requested of each
\* class are number 1, 2, ... in strictly ascending order, none skipped.
C6_RequestOrder ==
    /\ \A i \in 1..Len(requests) :
           IsNormal(requests[i]) =>
               /\ cur_loading_water_tex = num_textures
               /\ \A j \in 1..Len(requests) : IsDiffuse(requests[j]) => j < i
    /\ \E m \in 0..num_textures :
           SelectSeq(requests, IsDiffuse) = FirstNames("diffuse", m)
    /\ \E m \in 0..num_normal_maps :
           SelectSeq(requests, IsNormal) = FirstNames("normal", m)

\* C7 (as claimed): after num_textures + num_normal_maps calls since construction
\* or unload, none of which failed, m_RenderWater is true and both cursors are at
\* capacity.
C7_ReadyAfterNCalls ==
    (calls = total_jobs /\ failures = 0) => (m_RenderWater /\ Full)

\* C7 (amended): after num_textures + num_normal_maps calls without failure both
\* cursors are at capacity; after one call more the last call returned 0 and
\* m_RenderWater is true.
C7_ReadyAfterNPlusOneCalls ==
    failures = 0 =>
        /\ calls >= total_jobs => Full
        /\ calls >= total_jobs + 1 => (m_RenderWater /\ ReturnedDone)

\* C7 witness: every call timed out after one texture, the call after them finished
C7_Witness ==
    calls = total_jobs + 1 /\ failures = 0 /\ provisions = 1 /\ m_RenderWater /\ ReturnedDone

\* C8: a load without failures that finished, however the timeouts cut it into
\* calls, has the slots, the cursors and the requested file names of a load that
\* finishes in one uninterrupted call.
C8_Resumable ==
    (ReturnedDone /\ failures = 0) =>
        /\ m_WaterTexture = Uninterrupted.m_WaterTexture
        /\ m_NormalMap = Uninterrupted.m_NormalMap
        /\ cur_loading_water_tex = Uninterrupted.cur_loading_water_tex
        /\ cur_loading_normal_map = Uninterrupted.cur_loading_normal_map
        /\ requests = Uninterrupted.requests

\* C8 witness: a load that a timeout interrupted and a later call finished
C8_Witness ==
    /\ ReturnedDone /\ failures = 0 /\ provisions = 1
    /\ calls > 1 /\ calls <= total_jobs
    /\ Len(requests) = total_jobs

\* C9: in whatever state UnloadWaterTextures is called, a full load from the
\* state it leaves requests the file names of the first load of a constructed
\* object, in the same order; so does every finished load without failures.
C9_ReloadSymmetry ==
    /\ lastOp = "unload" =>
           RunLoad(Self, total_jobs, "ok", g_Renderer_Height).requests
               = Uninterrupted.requests
    /\ (ReturnedDone /\ failures = 0 /\ Len(glTextures) > 2 * provisions) =>
           requests = RunLoad(Constructed, total_jobs, "ok", g_Renderer_Height).requests

\* C9 witness: loaded, unloaded when ready, and loaded again to the end
C9_Witness ==
    /\ ReturnedDone /\ failures = 0
    /\ provisions = 1 /\ Len(glTextures) = 4
    /\ Len(requests) = total_jobs

\* C10 (as claimed): a second UnloadWaterTextures changes nothing the first one
\* left, and what it left is: all slots empty, both cursors zero, m_RenderWater
\* false.
C10_UnloadIdempotent ==
    lastOp = "unload" =>
        /\ LET t == RunUnload(Self)
           IN <<t.m_RenderWater, t.m_WaterTexture, t.m_NormalMap,
                t.cur_loading_water_tex, t.cur_loading_normal_map,
                t.m_ReflectionTexture, t.m_RefractionTexture,
                t.m_ReflectionTextureSize, t.m_RefractionTextureSize>> = Members
        /\ Idle
        /\ ~m_RenderWater

(* ------------------------------------------------------------------------ *)
(* C11..C20                                                                  *)
(* ------------------------------------------------------------------------ *)

RECURSIVE IsPowerOf2(_)
\* p is 1, 2, 4, 8, ...
IsPowerOf2(p) == p = 1 \/ (p > 1 /\ p % 2 = 0 /\ IsPowerOf2(p \div 2))

\* how often h occurs in seq
Count(seq, h) == Cardinality({i \in 1..Len(seq) : seq[i] = h})

\* how many slots hold h
SlotCount(h) ==
    Cardinality({i \in 0..(num_textures - 1) : m_WaterTexture[i] = h})
        + Cardinality({i \in 0..(num_normal_maps - 1) : m_NormalMap[i] = h})

\* C11: in a load session that follows the unload of a failed one and in which
\* no load or upload fails, every call makes progress, so that at the latest
\* call number num_textures + num_normal_maps + 1 returns Done; and when a call
\* has returned Done, m_RenderWater is true and both cursors are at capacity.
C11_RecoveryAfterFailure ==
    (recovering /\ failures = 0) =>
        /\ calls <= cur_loading_water_tex + cur_loading_normal_map + provisions
        /\ calls >= total_jobs + 1 => ReturnedDone
        /\ (lastOp = "load" /\ ret = <<0>>) => (m_RenderWater /\ Full)

\* C11 witness: a failed session was unloaded and the next session has finished
C11_Witness ==
    recovering /\ failures = 0 /\ ReturnedDone /\ m_RenderWater /\ provisions = 1

\* C12: for a window height > 0 the reflection and the refraction texture get
\* the same size p, the largest power of two <= the height.
C12_RenderTargetSize ==
    (m_ReflectionTexture # 0 /\ g_Renderer_Height > 0) =>
        /\ m_ReflectionTextureSize = m_RefractionTextureSize
        /\ IsPowerOf2(m_ReflectionTextureSize)
        /\ m_ReflectionTextureSize <= g_Renderer_Height
        /\ g_Renderer_Height < 2 * m_ReflectionTextureSize
        /\ glTextures[m_ReflectionTexture].size = m_ReflectionTextureSize
        /\ glTextures[m_RefractionTexture].size = m_RefractionTextureSize

\* C12 witness: height 1000 gave size 512
C12_Witness ==
    m_ReflectionTexture # 0 /\ g_Renderer_Height = 1000 /\ m_RefractionTextureSize = 512

\* C13 (as claimed): with a window height <= 0 no render target is created, no
\* call returns Done and m_RenderWater stays false.
C13_InvalidDisplaySize ==
    g_Renderer_Height <= 0 =>
        (Len(glTextures) = 0 /\ ~m_RenderWater /\ ~ReturnedDone)

\* C14 (as claimed): when the creation of a render target failed, the call did
\* not return Done, m_RenderWater is not set by it and no member refers to a
\* texture that was not created.
C14_ProvisionFailure ==
    /\ \A t \in {m_ReflectionTexture, m_RefractionTexture} :
           t # 0 => glTextures[t].created
    /\ ReturnedDone =>
           (glTextures[Len(glTextures) - 1].created /\ glTextures[Len(glTextures)].created)
    /\ (\E i \in 1..Len(glTextures) : ~glTextures[i].created /\ i > Len(glTextures) - 2 * provisions)
           => ~m_RenderWater

\* C15: UnloadWaterTextures passes every handle a slot holds to ogl_tex_free
\* exactly once, nothing else, and leaves all slots empty and both cursors zero.
C15_UnloadReleasesPool ==
    [][lastOp' = "unload"
          => (/\ \A h \in Handles : Count(freed', h) = SlotCount(h)
              /\ \A i \in 1..Len(freed') : freed'[i] \in Handles
              /\ Idle')]_vars

\* C15 witness: an unload of a failed session that had handles to free
C15_Witness == lastOp = "unload" /\ recovering /\ Len(freed) > 0 /\ Idle

\* C16: each cursor stays within 0..capacity; UnloadWaterTextures sets both to
\* zero; a LoadWaterTextures call never decreases one and advances them by one
\* for each file it loaded and uploaded, and by nothing else.
C16_CursorDiscipline ==
    [][/\ cur_loading_water_tex' \in 0..num_textures
       /\ cur_loading_normal_map' \in 0..num_normal_maps
       /\ lastOp' = "unload" => (cur_loading_water_tex' = 0 /\ cur_loading_normal_map' = 0)
       /\ lastOp' = "load" =>
              /\ cur_loading_water_tex' >= cur_loading_water_tex
              /\ cur_loading_normal_map' >= cur_loading_normal_map
              /\ (cur_loading_water_tex' - cur_loading_water_tex)
                     + (cur_loading_normal_map' - cur_loading_normal_map)
                   = (Len(requests') - Len(requests)) - (IF ReturnedError' THEN 1 ELSE 0)]_vars

\* C16 witness: the upload of the first normal map failed, its cursor did not move
C16_Witness ==
    /\ lastOp = "load" /\ ret = <<ERR_UPLOAD>>
    /\ cur_loading_water_tex = num_textures /\ cur_loading_normal_map = 0
    /\ Len(requests) = num_textures + 1

\* C17 (as claimed): slot i of a class holds a handle if and only if i is below
\* the cursor of the class.
C17_SlotsExactlyBelowCursor ==
    /\ \A i \in 0..(num_textures - 1) : m_WaterTexture[i] # 0 <=> i < cur_loading_water_tex
    /\ \A i \in 0..(num_normal_maps - 1) : m_NormalMap[i] # 0 <=> i < cur_loading_normal_map

\* C17 (amended): the slots below the cursor hold the handles of their files and
\* the slots above it are empty; the slot at the cursor is empty or, after a call
\* of this session failed, holds the handle of its file.
C17_SlotsUpToCursor ==
    /\ \A i \in 0..(num_textures - 1) :
           /\ i < cur_loading_water_tex => m_WaterTexture[i] = HandleOf(Filename("diffuse", i + 1))
           /\ i > cur_loading_water_tex => m_WaterTexture[i] = 0
           /\ i = cur_loading_water_tex =>
                  \/ m_WaterTexture[i] = 0
                  \/ failures > 0 /\ m_WaterTexture[i] = HandleOf(Filename("diffuse", i + 1))
    /\ \A i \in 0..(num_normal_maps - 1) :
           /\ i < cur_loading_normal_map => m_NormalMap[i] = HandleOf(Filename("normal", i + 1))
           /\ i > cur_loading_normal_map => m_NormalMap[i] = 0
           /\ i = cur_loading_normal_map =>
                  \/ m_NormalMap[i] = 0
                  \/ failures > 0 /\ m_NormalMap[i] = HandleOf(Filename("normal", i + 1))

\* C17 witness: the upload of a diffuse texture failed, its handle is in the slot
\* at the cursor
C17_Witness ==
    /\ lastOp = "load" /\ ret = <<ERR_UPLOAD>>
    /\ cur_loading_water_tex < num_textures
    /\ m_WaterTexture[cur_loading_water_tex] # 0

\* C18 (as claimed): the reflection texture has a linear, the refraction texture
\* a nearest minification filter; both magnify linearly and clamp to the edge.
C18_FiltersAsClaimed ==
    m_ReflectionTexture # 0 =>
        /\ glTextures[m_ReflectionTexture].min = GL_LINEAR
        /\ glTextures[m_RefractionTexture].min = GL_NEAREST
        /\ \A t \in {m_ReflectionTexture, m_RefractionTexture} :
               /\ glTextures[t].mag = GL_LINEAR
               /\ glTextures[t].wrap_s = GL_CLAMP_TO_EDGE
               /\ glTextures[t].wrap_t = GL_CLAMP_TO_EDGE

\* C18 (amended): the reflection texture has a nearest, the refraction texture a
\* linear minification filter; both magnify linearly and clamp to the edge.
C18_FiltersOfTheCode ==
    m_ReflectionTexture # 0 =>
        /\ glTextures[m_ReflectionTexture].min = GL_NEAREST
        /\ glTextures[m_RefractionTexture].min = GL_LINEAR
        /\ \A t \in {m_ReflectionTexture, m_RefractionTexture} :
               /\ glTextures[t].mag = GL_LINEAR
               /\ glTextures[t].wrap_s = GL_CLAMP_TO_EDGE
               /\ glTextures[t].wrap_t = GL_CLAMP_TO_EDGE

\* C18 witness: both render targets exist
C18_Witness ==
    m_ReflectionTexture # 0 /\ m_RefractionTexture # 0 /\ m_RenderWater /\ provisions > 0

\* C19 (as claimed): right after an unload every handle ogl_tex_load returned
\* has been passed to ogl_tex_free exactly once; before it, every handle loaded
\* is in exactly as many slots as it was loaded times.
C19_NoLeak ==
    /\ lastOp = "unload" => \A h \in Handles : Count(loaded, h) = Count(freed, h)
    /\ lastOp = "load" => \A h \in Handles : Count(loaded, h) = SlotCount(h)

\* C20 (as claimed): LoadWaterTextures returns 0 only with both cursors at
\* capacity and m_RenderWater true.
C20_ZeroMeansReady ==
    (lastOp = "load" /\ ret = <<0>>) => (Full /\ m_RenderWater)
====
